---- MODULE Spec2Model ----
(***************************************************************************)
(* A model of keepa_gb_sellers_in_de.py: the country inference             *)
(* (extract_country_from_seller), the URL builders and main's              *)
(* load / batch-lookup / filter / write pipeline.                          *)
(*                                                                         *)
(* Python strings are sequences of one-character strings, so that strip(), *)
(* upper(), split(",") and the regular expressions are computed, not       *)
(* assumed.  A value of the provider's loosely typed JSON is a record      *)
(*   [t |-> tag, s |-> characters, l |-> list elements, d |-> mapping]     *)
(* with tag "absent" (key missing), "none", "num", "str", "list", "dict".  *)
(* List elements and the values inside a nested mapping are records        *)
(* [t, s] with tag "absent", "none", "num" or "str".                       *)
(***************************************************************************)
EXTENDS Integers, Sequences, FiniteSets, TLC

VARIABLES
    pc,             \* where the script is: "import", "main", "init_api", "loop", "write", "done", "exit"
    exitMsg,        \* which uncaught exception / SystemExit ended the run ("" while running)
    keepaInstalled, \* environment: import keepa succeeds
    KEEPA_KEY,      \* environment: TRUE iff os.getenv("KEEPA_API_KEY") is a non-empty string
    fileExists,     \* environment: os.path.exists(INPUT_FILE)
    fileLines,      \* environment: the lines of INPUT_FILE, as iterating the file yields them
    seller_ids,     \* main's seller_ids
    i,              \* main's loop variable, 0-based as in range(0, len(seller_ids), BATCH)
    rows,           \* main's rows
    calls,          \* history: one entry per api.seller_query call issued
    outFile,        \* OUTPUT_FILE: [written, header, rows]
    stdout,         \* what the script has printed
    seller_obj,     \* argument of a stand-alone call of extract_country_from_seller
    country,        \* its return value
    epc             \* "ready" before that call, "returned" after

vars == <<pc, exitMsg, keepaInstalled, KEEPA_KEY, fileExists, fileLines, seller_ids,
          i, rows, calls, outFile, stdout, seller_obj, country, epc>>

mainVars == <<pc, exitMsg, keepaInstalled, KEEPA_KEY, fileExists, fileLines, seller_ids,
              i, rows, calls, outFile, stdout>>

extractVars == <<seller_obj, country, epc>>

(***************************************************************************)
(* Characters and the str methods the script uses.                         *)
(***************************************************************************)
UpperCase == <<"A","B","C","D","E","F","G","H","I","J","K","L","M",
               "N","O","P","Q","R","S","T","U","V","W","X","Y","Z">>

LowerCase == <<"a","b","c","d","e","f","g","h","i","j","k","l","m",
               "n","o","p","q","r","s","t","u","v","w","x","y","z">>

Range(f) == {f[x] : x \in DOMAIN f}

\* [A-Za-z]
Letters == Range(UpperCase) \cup Range(LowerCase)

Digits == {"0","1","2","3","4","5","6","7","8","9"}

\* \w of a str pattern, on ASCII
WordChars == Letters \cup Digits \cup {"_"}

\* what str.strip() removes and \s matches, on ASCII
Whitespace == {" ", "\t", "\n", "\r", "\f"}

LowerLetters == Range(LowerCase)

\* str.upper() on one character
UpperChar(c) ==
    IF c \in LowerLetters
    THEN UpperCase[CHOOSE n \in DOMAIN LowerCase : LowerCase[n] = c]
    ELSE c

\* str.upper()
Upper(s) == [n \in 1..Len(s) |-> UpperChar(s[n])]

RECURSIVE LStrip(_)
LStrip(s) == IF s # <<>> /\ Head(s) \in Whitespace THEN LStrip(Tail(s)) ELSE s

RECURSIVE RStrip(_)
RStrip(s) ==
    IF s # <<>> /\ s[Len(s)] \in Whitespace THEN RStrip(SubSeq(s, 1, Len(s) - 1)) ELSE s

\* str.strip()
Strip(s) == RStrip(LStrip(s))

\* s.split(",")[-1]: what follows the last comma, the whole string when there is none
RECURSIVE LastSegment(_)
LastSegment(s) ==
    IF \E n \in 1..Len(s) : s[n] = ","
    THEN LastSegment(SubSeq(s, (CHOOSE n \in 1..Len(s) : s[n] = ",") + 1, Len(s)))
    ELSE s

(***************************************************************************)
(* The regular expressions of extract_country_from_seller.                 *)
(***************************************************************************)
\* re.fullmatch(r"[A-Za-z]{2}", s)
FullMatchTwoLetters(s) == Len(s) = 2 /\ s[1] \in Letters /\ s[2] \in Letters

\* re.fullmatch(r"\s*[A-Za-z]{2}\s*", s)
FullMatchPaddedTwoLetters(s) ==
    \E n \in 0..Len(s) :
        /\ n + 2 <= Len(s)
        /\ \A m \in 1..n : s[m] \in Whitespace
        /\ s[n + 1] \in Letters
        /\ s[n + 2] \in Letters
        /\ \A m \in (n + 3)..Len(s) : s[m] \in Whitespace

\* the literal w matches s at position n, ignoring case (re.I)
LiteralAt(s, n, w) ==
    /\ n >= 1
    /\ n + Len(w) - 1 <= Len(s)
    /\ \A m \in 1..Len(w) : UpperChar(s[n + m - 1]) = UpperChar(w[m])

IsWordAt(s, n) == n >= 1 /\ n <= Len(s) /\ s[n] \in WordChars

\* \b between positions n and n + 1 of s (n = 0: the start, n = Len(s): the end)
WordBoundary(s, n) == IsWordAt(s, n) # IsWordAt(s, n + 1)

\* re.search(r"\bW\b", s, re.I) for a literal W
SearchToken(s, w) ==
    \E n \in 1..Len(s) :
        /\ LiteralAt(s, n, w)
        /\ WordBoundary(s, n - 1)
        /\ WordBoundary(s, n + Len(w) - 1)

\* re.search(r"W1\s+W2", s, re.I) for literals W1, W2
SearchPhrase(s, w1, w2) ==
    \E n \in 1..Len(s) :
        /\ LiteralAt(s, n, w1)
        /\ \E m \in (n + Len(w1) + 1)..Len(s) :
            /\ \A k \in (n + Len(w1))..(m - 1) : s[k] \in Whitespace
            /\ LiteralAt(s, m, w2)

\* re.search(r"(United\s+Kingdom|Great\s+Britain|\bUK\b|\bGB\b)", s, re.I)
SearchUKGB(s) ==
    \/ SearchPhrase(s, <<"U","n","i","t","e","d">>, <<"K","i","n","g","d","o","m">>)
    \/ SearchPhrase(s, <<"G","r","e","a","t">>, <<"B","r","i","t","a","i","n">>)
    \/ SearchToken(s, <<"U","K">>)
    \/ SearchToken(s, <<"G","B">>)

(***************************************************************************)
(* JSON values.                                                            *)
(***************************************************************************)
\* the keys looked up inside "extra"
InnerKeys == {"country", "countryCode", "establishedCountry"}

AbsentE == [t |-> "absent", s |-> <<>>]
NoneE == [t |-> "none", s |-> <<>>]
NumE(digits) == [t |-> "num", s |-> digits]
StrE(chars) == [t |-> "str", s |-> chars]

EmptyDict == [k \in InnerKeys |-> AbsentE]

Absent == [t |-> "absent", s |-> <<>>, l |-> <<>>, d |-> EmptyDict]
NoneV == [t |-> "none", s |-> <<>>, l |-> <<>>, d |-> EmptyDict]
Num(digits) == [t |-> "num", s |-> digits, l |-> <<>>, d |-> EmptyDict]
Str(chars) == [t |-> "str", s |-> chars, l |-> <<>>, d |-> EmptyDict]
List(elems) == [t |-> "list", s |-> <<>>, l |-> elems, d |-> EmptyDict]
Dict(map) == [t |-> "dict", s |-> <<>>, l |-> <<>>, d |-> map]

\* the keys of a seller record that the script reads
FieldNames == {"establishedCountry", "countryCode", "country",
               "businessAddress", "registrationAddress", "address",
               "storefrontAddress", "sellerAddress", "extra", "sellerName"}

\* {}: a record none of whose keys the script reads
EmptyObj == [k \in FieldNames |-> Absent]

\* isinstance(v, str) and v.strip()
IsNonBlankStr(v) == v.t = "str" /\ Strip(v.s) # <<>>

\* Optional[str]
None == [some |-> FALSE, s |-> <<>>]
Some(chars) == [some |-> TRUE, s |-> chars]

(***************************************************************************)
(* str() of a JSON value, as main and extract_country_from_seller apply    *)
(* it.  repr of a str is modelled for strings without quotes or            *)
(* backslashes; a newline or tab is escaped as Python escapes it.          *)
(***************************************************************************)
ReprChar(c) ==
    IF c = "\n" THEN <<"\\", "n">>
    ELSE IF c = "\t" THEN <<"\\", "t">>
    ELSE IF c = "\r" THEN <<"\\", "r">>
    ELSE <<c>>

RECURSIVE ReprChars(_)
ReprChars(s) == IF s = <<>> THEN <<>> ELSE ReprChar(Head(s)) \o ReprChars(Tail(s))

NoneText == <<"N","o","n","e">>

\* str(e) of a list element or nested value
PyStrE(e) ==
    IF e.t = "str" THEN e.s
    ELSE IF e.t = "num" THEN e.s
    ELSE NoneText

\* repr(e) of a list element or nested value
PyReprE(e) ==
    IF e.t = "str" THEN <<"'">> \o ReprChars(e.s) \o <<"'">>
    ELSE PyStrE(e)

RECURSIVE JoinRepr(_)
JoinRepr(elems) ==
    IF elems = <<>> THEN <<>>
    ELSE IF Len(elems) = 1 THEN PyReprE(elems[1])
    ELSE PyReprE(elems[1]) \o <<",", " ">> \o JoinRepr(Tail(elems))

\* the key names as text, and the order in which a dict's items are listed
InnerKeyOrder == <<"country", "countryCode", "establishedCountry">>

KeyText(k) ==
    IF k = "country" THEN <<"c","o","u","n","t","r","y">>
    ELSE IF k = "countryCode" THEN <<"c","o","u","n","t","r","y","C","o","d","e">>
    ELSE <<"e","s","t","a","b","l","i","s","h","e","d","C","o","u","n","t","r","y">>

RECURSIVE JoinItems(_, _)
JoinItems(d, n) ==
    IF n > Len(InnerKeyOrder) THEN <<>>
    ELSE LET k == InnerKeyOrder[n]
             rest == JoinItems(d, n + 1)
         IN IF d[k].t = "absent" THEN rest
            ELSE <<"'">> \o KeyText(k) \o <<"'", ":", " ">> \o PyReprE(d[k])
                 \o (IF rest = <<>> THEN <<>> ELSE <<",", " ">> \o rest)

\* str(v)
PyStr(v) ==
    IF v.t = "str" THEN v.s
    ELSE IF v.t = "num" THEN v.s
    ELSE IF v.t = "list" THEN <<"[">> \o JoinRepr(v.l) \o <<"]">>
    ELSE IF v.t = "dict" THEN <<"{">> \o JoinItems(v.d, 1) \o <<"}">>
    ELSE NoneText

\* bool(v): the truth value Python's `or` tests
Truthy(v) ==
    IF v.t = "str" THEN v.s # <<>>
    ELSE IF v.t = "num" THEN v.s # <<"0">>
    ELSE IF v.t = "list" THEN v.l # <<>>
    ELSE IF v.t = "dict" THEN \E k \in InnerKeys : v.d[k].t # "absent"
    ELSE FALSE

(***************************************************************************)
(* extract_country_from_seller                                             *)
(***************************************************************************)
GB == <<"G", "B">>
UK == <<"U", "K">>

\* the direct keys in the order of line 51
DirectKeysSwapped == <<"country", "countryCode", "establishedCountry">>

\* the list of line 24
DirectKeys == <<"establishedCountry", "countryCode", "country">>

\* candidate_keys
CandidateKeys == <<"businessAddress", "registrationAddress", "address",
                   "storefrontAddress", "sellerAddress">>

\* the keys of "extra" in the order of line 24
ExtraKeysAsDirect == <<"establishedCountry", "countryCode", "country">>

\* the list of line 51
ExtraKeys == <<"country", "countryCode", "establishedCountry">>

\* the loop of lines 24-27
RECURSIVE FirstDirect(_, _)
FirstDirect(obj, n) ==
    IF n > Len(DirectKeys) THEN None
    ELSE LET v == obj[DirectKeys[n]]
         IN IF IsNonBlankStr(v) THEN Some(Upper(Strip(v.s)))
            ELSE FirstDirect(obj, n + 1)

\* the body of the loop of lines 34-47 with the pattern tested before the two letters
AddressCountryPatternFirst(v) ==
    IF v.t = "list" /\ v.l # <<>>
    THEN LET last == Strip(PyStrE(v.l[Len(v.l)]))
         IN IF SearchUKGB(last) THEN Some(GB)
            ELSE IF FullMatchTwoLetters(last) THEN Some(Upper(last))
            ELSE None
    ELSE IF v.t = "str" /\ Strip(v.s) # <<>>
    THEN LET tail == LastSegment(Strip(v.s))
         IN IF SearchUKGB(v.s) THEN Some(GB)
            ELSE IF FullMatchPaddedTwoLetters(tail) THEN Some(Upper(Strip(tail)))
            ELSE None
    ELSE None

\* the body of the loop of lines 34-47: what one address field returns, None
\* when the loop goes on to the next key
AddressCountry(v) ==
    IF v.t = "list" /\ v.l # <<>>
    THEN LET last == Strip(PyStrE(v.l[Len(v.l)]))
         IN IF FullMatchTwoLetters(last) THEN Some(Upper(last))
            ELSE IF SearchUKGB(last) THEN Some(GB)
            ELSE None
    ELSE IF v.t = "str" /\ Strip(v.s) # <<>>
    THEN LET tail == LastSegment(Strip(v.s))
         IN IF FullMatchPaddedTwoLetters(tail) THEN Some(Upper(Strip(tail)))
            ELSE IF SearchUKGB(v.s) THEN Some(GB)
            ELSE None
    ELSE None

\* the loop of lines 34-47
RECURSIVE FirstAddress(_, _)
FirstAddress(obj, n) ==
    IF n > Len(CandidateKeys) THEN None
    ELSE LET r == AddressCountry(obj[CandidateKeys[n]])
         IN IF r.some THEN r ELSE FirstAddress(obj, n + 1)

\* the loop of lines 51-54 over the mapping d
RECURSIVE FirstExtra(_, _)
FirstExtra(d, n) ==
    IF n > Len(ExtraKeys) THEN None
    ELSE LET v == d[ExtraKeys[n]]
         IN IF v.t = "str" /\ Strip(v.s) # <<>> THEN Some(Upper(Strip(v.s)))
            ELSE FirstExtra(d, n + 1)

extract_country_from_seller(obj) ==
    LET direct == FirstDirect(obj, 1)
    IN IF direct.some THEN direct
       ELSE LET addr == FirstAddress(obj, 1)
            IN IF addr.some THEN addr
               ELSE LET extra == obj["extra"]
                    IN IF extra.t = "dict" THEN FirstExtra(extra.d, 1) ELSE None


(***************************************************************************)
(* The records a stand-alone call of extract_country_from_seller is        *)
(* checked on: every record with at most MaxFields of the nine keys it     *)
(* reads present, each present key holding one of the sample values of     *)
(* its kind.                                                               *)
(***************************************************************************)
MaxFields == 2

\* values of a direct field: "", " \t", " gb\n", "UK", "Germany", null, 7
DirectSamples ==
    << Str(<<>>), Str(<<" ", "\t">>), Str(<<" ", "g", "b", "\n">>), Str(<<"U", "K">>), Str(<<"G", "e", "r", "m", "a", "n", "y">>), NoneV, Num(<<"7">>) >>

\* values of an address field
AddressSamples ==
    << Str(<<"x", ",", " ", "g", "b", " ">>),        \* "x, gb "
      Str(<<"U", "n", "i", "t", "e", "d", " ", " ", "K", "i", "n", "g", "d", "o", "m">>),        \* "United  Kingdom"
      Str(<<"U", "K", ",", " ", "B", "e", "r", "l", "i", "n">>),        \* "UK, Berlin"
      Str(<<"U", "n", "i", "t", "e", "d", " ", "K", "i", "n", "g", "d", "o", "m", ",", " ", "D", "E">>),        \* "United Kingdom, DE"
      Str(<<"D", "u", "b", "a", "i", ",", " ", "U", "K", "R">>),        \* "Dubai, UKR"
      Str(<<" ", " ">>),        \* "  "
      List(<<StrE(<<"L", "o", "n", "d", "o", "n">>), StrE(<<"U", "K">>)>>),        \* ["London", "UK"]
      List(<<StrE(<<"x">>), StrE(<<"G", "r", "e", "a", "t", " ", "B", "r", "i", "t", "a", "i", "n", " ">>)>>),      \* ["x", "Great Britain "]
      List(<<StrE(<<"f","r">>), StrE(<<"P", "a", "r", "i", "s">>)>>),   \* ["fr", "Paris"]
      List(<<StrE(<<"G", "B">>), NumE(<<"1","2">>)>>),     \* ["GB", 12]
      List(<<>>),
      NoneV,
      Dict([EmptyDict EXCEPT !["country"] = StrE(<<"G", "B">>)]) >>

\* values of "extra": mappings holding some of country: "fr", countryCode: " gb",
\* establishedCountry: "UK\n"; mappings with a blank or a non-string value ahead of
\* a usable one; and two values that are no mapping
ExtraSamples ==
    << Dict(EmptyDict),
       Dict([EmptyDict EXCEPT !["countryCode"] = StrE(<<" ","g","b">>)]),
       Dict([EmptyDict EXCEPT !["country"] = StrE(<<"f","r">>),
                              !["countryCode"] = StrE(<<" ","g","b">>)]),
       Dict([EmptyDict EXCEPT !["countryCode"] = StrE(<<" ","g","b">>),
                              !["establishedCountry"] = StrE(<<"U","K","\n">>)]),
       Dict([EmptyDict EXCEPT !["country"] = StrE(<<"f","r">>),
                              !["establishedCountry"] = StrE(<<"U","K","\n">>)]),
       Dict([EmptyDict EXCEPT !["establishedCountry"] = StrE(<<"U","K","\n">>)]),
       Dict([EmptyDict EXCEPT !["country"] = StrE(<<" ">>), !["countryCode"] = StrE(<<"G","B">>)]),
       Dict([EmptyDict EXCEPT !["country"] = NumE(<<"4">>),
                              !["establishedCountry"] = StrE(<<"u","k">>)]),
       Dict([EmptyDict EXCEPT !["country"] = NoneE, !["countryCode"] = StrE(<<>>)]),
       Str(<<"G","B">>),
       NoneV >>

\* the keys extract_country_from_seller reads
ExtractFields == Range(DirectKeys) \cup Range(CandidateKeys) \cup {"extra"}

SamplesFor(k) ==
    IF k \in {"establishedCountry", "countryCode", "country"} THEN DirectSamples
    ELSE IF k = "extra" THEN ExtraSamples
    ELSE AddressSamples

\* the sets of keys a sample record may hold
KeySets == { S \in SUBSET ExtractFields : Cardinality(S) <= MaxFields }

\* the record holding, under each key k of the domain of pick, the sample value
\* number pick[k] of its kind
SampleRecord(pick) ==
    [k \in FieldNames |-> IF k \in DOMAIN pick THEN SamplesFor(k)[pick[k]] ELSE Absent]

SampleCount ==
    LET n == {Len(DirectSamples), Len(AddressSamples), Len(ExtraSamples)}
    IN CHOOSE m \in n : \A k \in n : k <= m

(***************************************************************************)
(* The URL builders.  A URL is kept as the pieces the f-string joins.      *)
(***************************************************************************)
amazon_seller_url(seller_id, domain) ==
    LET tld == IF domain = "DE" THEN "de"
               ELSE IF domain = "GB" THEN "co.uk"
               ELSE IF domain = "US" THEN "com"
               ELSE "de"
    IN <<"https://www.amazon.", tld, "/sp?seller=", seller_id>>

keepa_seller_url(seller_id, domain) == <<"https://keepa.com/#!seller/", domain, "/", seller_id>>

(***************************************************************************)
(* main: the input file.                                                   *)
(***************************************************************************)
\* line 79
BATCH == 100

\* a filter that lets a third country through
TargetCountriesWide == {GB, UK, <<"G", "E", "R", "M", "A", "N", "Y">>}

\* the set of line 90
TargetCountries == {GB, UK}

\* the test of the comprehension of line 70: line.strip() is not empty
LineNotBlank(line) == Strip(line) # <<>>

\* [line.strip() for line in f if line.strip()] without the strip of the kept line
LoadIdsUnstripped(lines) == SelectSeq(lines, LineNotBlank)

\* [line.strip() for line in f if line.strip()]
LoadIds(lines) ==
    LET kept == SelectSeq(lines, LineNotBlank)
    IN [n \in 1..Len(kept) |-> Strip(kept[n])]

\* seller_ids[i:i+BATCH] with one identifier too many
BatchOfOverlapping(ids, start) ==
    SubSeq(ids, start + 1, IF start + BATCH + 1 < Len(ids) THEN start + BATCH + 1 ELSE Len(ids))

\* seller_ids[i:i+BATCH], i counted from 0
BatchOf(ids, start) ==
    SubSeq(ids, start + 1, IF start + BATCH < Len(ids) THEN start + BATCH ELSE Len(ids))

\* str(s.get("sellerName") or "") without the strip
SellerNameUnstripped(s) ==
    LET v == s["sellerName"] IN PyStr(IF Truthy(v) THEN v ELSE Str(<<>>))

\* str(s.get("sellerName") or "").strip()
SellerName(s) ==
    LET v == s["sellerName"] IN Strip(PyStr(IF Truthy(v) THEN v ELSE Str(<<>>)))

\* the dict of lines 91-97
Row(sid, s, c) ==
    [sellerId |-> sid,
     sellerName |-> SellerName(s),
     establishedCountry |-> c,
     amazonUrl |-> amazon_seller_url(sid, "DE"),
     keepaUrl |-> keepa_seller_url(sid, "DE")]

\* data.get(sid) of a mapping held as a function over the keys it may hold
DataGet(data, sid) ==
    IF sid \in DOMAIN data THEN data[sid] ELSE [t |-> "absent", obj |-> EmptyObj]

\* the rows of lines 85-97 taken over every key of data, not over the batch
RowsOfAllKeys(batch, data) ==
    LET RECURSIVE Over(_)
        Over(keys) ==
            IF keys = {} THEN <<>>
            ELSE LET sid == CHOOSE k \in keys : TRUE
                     e == data[sid]
                     c == extract_country_from_seller(e.obj)
                 IN (IF e.t = "dict" /\ c.some /\ c.s \in TargetCountries
                     THEN <<Row(sid, e.obj, c.s)>> ELSE <<>>) \o Over(keys \ {sid})
    IN Over(DOMAIN data)

\* the rows the loop of lines 85-97 appends for one batch and its result: one row,
\* in batch order, for every position whose record passes the tests of lines 87, 90
RowsOf(batch, data) ==
    LET CountryOf(n) == extract_country_from_seller(DataGet(data, batch[n]).obj)
        Passes(n) ==
            /\ DataGet(data, batch[n]).t = "dict"
            /\ CountryOf(n).some
            /\ CountryOf(n).s \in TargetCountries
        kept == SelectSeq([n \in 1..Len(batch) |-> n], Passes)
    IN [n \in 1..Len(kept) |->
            Row(batch[kept[n]], DataGet(data, batch[kept[n]]).obj, CountryOf(kept[n]).s)]

(***************************************************************************)
(* The inputs of a run: the input files and the provider's answers.        *)
(***************************************************************************)
MaxShort == 3
MaxBulk == 201

IdA == <<"A", "1">>
IdB == <<"B", "2">>
IdC == <<"C", "3">>
\* a key the provider may return that no input file holds
IdZ == <<"Z", "9">>

\* "\n", " \t\n", "A1\n", " B2 \n"
LineSamples == { <<"\n">>, <<" ", "\t", "\n">>, IdA \o <<"\n">>, <<" ">> \o IdB \o <<" ", "\n">> }

\* every file of at most MaxShort sample lines
ShortFiles == UNION { [1..n -> LineSamples] : n \in 0..MaxShort }

\* a file of n identifier lines: " B2 \n", "C3\n", "A1\n", " B2 \n", ...
BulkFile(n) ==
    [k \in 1..n |-> IF k % 3 = 1 THEN <<" ">> \o IdB \o <<" ", "\n">>
                    ELSE IF k % 3 = 2 THEN IdC \o <<"\n">>
                    ELSE IdA \o <<"\n">>]

\* files around one and two full batches, and the longest one
LongFiles == { BulkFile(n) : n \in {BATCH - 1, BATCH, BATCH + 1, 2 * BATCH, MaxBulk} }

InputFiles == ShortFiles \cup LongFiles

Obj(fields) == [k \in FieldNames |-> IF k \in DOMAIN fields THEN fields[k] ELSE Absent]

DictEntry(fields) == [t |-> "dict", obj |-> Obj(fields)]
\* a value that is no dict (a string, a number, null)
OtherEntry == [t |-> "other", obj |-> EmptyObj]
AbsentEntry == [t |-> "absent", obj |-> EmptyObj]

\* what the provider may hold for the first identifier
EntriesA ==
    << AbsentEntry,
      OtherEntry,
      DictEntry([country |-> Str(<<" ", "g", "b", "\n">>), sellerName |-> Str(<<" ", "A", "c", "m", "e", " ", "L", "t", "d", "\n">>)]),
      DictEntry([businessAddress |-> List(<<StrE(<<"L", "o", "n", "d", "o", "n">>), StrE(<<"U", "K">>)>>)]),
      DictEntry([establishedCountry |-> Str(<<"G", "e", "r", "m", "a", "n", "y">>), address |-> Str(<<"x", ",", " ", "g", "b", " ">>),
                 sellerName |-> Str(<<"B", "e", "r", "l", "i", "n", " ", "G", "m", "b", "H">>)]),
      DictEntry([sellerName |-> Str(<<"N", "o", "b", "o", "d", "y">>)]),
      DictEntry([extra |-> Dict([EmptyDict EXCEPT !["countryCode"] = StrE(<<" ","g","b">>)]),
                 sellerName |-> Num(<<"4","2">>)]),
      DictEntry([address |-> Str(<<"U", "n", "i", "t", "e", "d", " ", " ", "K", "i", "n", "g", "d", "o", "m">>), sellerName |-> List(<<StrE(<<"a">>), NumE(<<"1">>)>>)]) >>

\* what the provider may hold for the second identifier
EntriesB ==
    << AbsentEntry,
      DictEntry([countryCode |-> Str(<<"U", "K">>), sellerName |-> Num(<<"0">>)]),
      DictEntry([country |-> Str(<<"G", "B">>), sellerName |-> NoneV]),
      DictEntry([sellerAddress |-> Str(<<"U", "K", ",", " ", "B", "e", "r", "l", "i", "n">>), sellerName |-> Str(<<" ", "\t">>)]),
      DictEntry([country |-> Str(<<"G", "B">>),
                 sellerName |-> Dict([EmptyDict EXCEPT !["country"] = StrE(<<"x">>)])]),
      DictEntry([country |-> Str(<<"u", "k">>), sellerName |-> List(<<>>)]) >>

\* the record held under the key nobody asked for
EntryZ == DictEntry([country |-> Str(<<"G", "B">>), sellerName |-> Str(<<"Z">>)])

\* {}: the mapping with no key
EmptyData == [k \in {IdA, IdB, IdC, IdZ} |-> AbsentEntry]

\* the mapping holding a for the first identifier, b for the second, nothing for
\* the third, and a record under a key that was not asked for
Response(a, b) ==
    [k \in {IdA, IdB, IdC, IdZ} |->
        IF k = IdA THEN a ELSE IF k = IdB THEN b ELSE IF k = IdZ THEN EntryZ ELSE AbsentEntry]

\* the mappings api.seller_query may return
Responses ==
    { EmptyData }
    \cup { Response(EntriesA[n], EntriesB[((n - 1) % Len(EntriesB)) + 1]) : n \in 1..Len(EntriesA) }

(***************************************************************************)
(* The run of the script.                                                  *)
(***************************************************************************)
Header == <<"sellerId", "sellerName", "establishedCountry", "amazonUrl", "keepaUrl">>

NoFile == [written |-> FALSE, header |-> <<>>, rows |-> <<>>]

ExtractIdle == seller_obj = EmptyObj /\ country = None /\ epc = "off"

Init ==
    /\ pc = "import"
    /\ exitMsg = ""
    /\ keepaInstalled \in BOOLEAN
    /\ KEEPA_KEY \in BOOLEAN
    /\ fileExists \in BOOLEAN
    /\ fileLines \in (IF fileExists THEN InputFiles ELSE {<<>>})
    /\ seller_ids = <<>>
    /\ i = 0
    /\ rows = <<>>
    /\ calls = <<>>
    /\ outFile = NoFile
    /\ stdout = <<>>
    /\ ExtractIdle

Exit(msg) ==
    /\ pc' = "exit"
    /\ exitMsg' = msg
    /\ UNCHANGED <<keepaInstalled, KEEPA_KEY, fileExists, fileLines, seller_ids, i, rows,
                   calls, outFile, stdout>>
    /\ UNCHANGED extractVars

Goto(next) ==
    /\ pc' = next
    /\ UNCHANGED <<exitMsg, keepaInstalled, KEEPA_KEY, fileExists, fileLines>>
    /\ UNCHANGED extractVars

\* lines 10-13: import keepa fails
ImportKeepaFails ==
    /\ pc = "import"
    /\ ~keepaInstalled
    /\ Exit("Run: pip install -r requirements.txt")

\* lines 15-17: no API key
KeyMissing ==
    /\ pc = "import"
    /\ keepaInstalled
    /\ ~KEEPA_KEY
    /\ Exit("Set KEEPA_API_KEY in your .env file")

\* lines 7-20 run through; main() is called
ImportOk ==
    /\ pc = "import"
    /\ keepaInstalled
    /\ KEEPA_KEY
    /\ Goto("main")
    /\ UNCHANGED <<seller_ids, i, rows, calls, outFile, stdout>>

\* lines 66-67
InputMissing ==
    /\ pc = "main"
    /\ ~fileExists
    /\ Exit("Missing seller_ids.txt")

\* lines 69-73 with no identifier loaded
ReadSellerIdsEmpty ==
    /\ pc = "main"
    /\ fileExists
    /\ LoadIds(fileLines) = <<>>
    /\ pc' = "exit"
    /\ exitMsg' = "seller_ids.txt has no seller IDs"
    /\ seller_ids' = LoadIds(fileLines)
    /\ UNCHANGED <<keepaInstalled, KEEPA_KEY, fileExists, fileLines, i, rows, calls,
                   outFile, stdout>>
    /\ UNCHANGED extractVars

\* lines 69-73
ReadSellerIds ==
    /\ pc = "main"
    /\ fileExists
    /\ LoadIds(fileLines) # <<>>
    /\ seller_ids' = LoadIds(fileLines)
    /\ Goto("init_api")
    /\ UNCHANGED <<i, rows, calls, outFile, stdout>>

\* lines 76-79: the client is constructed
InitKeepa ==
    /\ pc = "init_api"
    /\ rows' = <<>>
    /\ i' = 0
    /\ Goto("loop")
    /\ UNCHANGED <<seller_ids, calls, outFile, stdout>>

\* line 76: keepa.Keepa(KEEPA_KEY) raises; no handler encloses it
InitKeepaRaises ==
    /\ pc = "init_api"
    /\ Exit("keepa.Keepa raised")

Call(batch, outcome, data) ==
    [batch |-> batch, outcome |-> outcome, data |-> data, rowsBefore |-> Len(rows)]

\* a handler that leaves the loop instead of going on
NextBatchStopsLoop ==
    /\ i' = Len(seller_ids)
    /\ stdout' = Append(stdout, <<"[warn] batch failed", (i \div BATCH) + 1>>)
    /\ rows' = rows

\* lines 98-100 and the next turn of the for loop: the warning, the sleep, the
\* next value of i
NextBatchAfterWarning ==
    /\ i' = i + BATCH
    /\ stdout' = Append(stdout, <<"[warn] batch failed", (i \div BATCH) + 1>>)
    /\ rows' = rows

\* one turn of the loop, lines 81-97, api.seller_query returning a mapping
BatchOk ==
    /\ pc = "loop"
    /\ i < Len(seller_ids)
    /\ i' = i + BATCH
    /\ \E data \in Responses :
        LET batch == BatchOf(seller_ids, i)
        IN /\ calls' = Append(calls, Call(batch, "ok", data))
           /\ rows' = rows \o RowsOf(batch, data)
    /\ Goto("loop")
    /\ UNCHANGED <<seller_ids, outFile, stdout>>

\* api.seller_query raising with no handler around the loop body
BatchRaisesUncaught ==
    /\ pc = "loop"
    /\ i < Len(seller_ids)
    /\ Exit("seller_query raised")

\* one turn of the loop, api.seller_query raising an Exception: lines 81-84, 98-100
BatchRaises ==
    /\ pc = "loop"
    /\ i < Len(seller_ids)
    /\ calls' = Append(calls, Call(BatchOf(seller_ids, i), "raised", EmptyData))
    /\ NextBatchAfterWarning
    /\ Goto("loop")
    /\ UNCHANGED <<seller_ids, outFile>>

\* one turn of the loop, api.seller_query returning something with no get (None, a
\* list): data.get(sid) raises AttributeError for the first sid: lines 81-86, 98-100
BatchNotAMapping ==
    /\ pc = "loop"
    /\ i < Len(seller_ids)
    /\ calls' = Append(calls, Call(BatchOf(seller_ids, i), "not_a_mapping", EmptyData))
    /\ NextBatchAfterWarning
    /\ Goto("loop")
    /\ UNCHANGED <<seller_ids, outFile>>

\* range(0, len(seller_ids), BATCH) is exhausted
LoopEnds ==
    /\ pc = "loop"
    /\ i >= Len(seller_ids)
    /\ Goto("write")
    /\ UNCHANGED <<seller_ids, i, rows, calls, outFile, stdout>>

\* lines 103-111
WriteCsv ==
    /\ pc = "write"
    /\ outFile' = [written |-> TRUE, header |-> Header, rows |-> rows]
    /\ stdout' = Append(stdout, <<"Done. Wrote", Len(rows)>>)
    /\ Goto("done")
    /\ UNCHANGED <<seller_ids, i, rows, calls>>

\* line 103: open(OUTPUT_FILE, "w") raises; no handler encloses it
WriteCsvRaises ==
    /\ pc = "write"
    /\ Exit("open raised")

Next ==
    \/ ImportKeepaFails
    \/ KeyMissing
    \/ ImportOk
    \/ InputMissing
    \/ ReadSellerIdsEmpty
    \/ ReadSellerIds
    \/ InitKeepa
    \/ InitKeepaRaises
    \/ BatchOk
    \/ BatchRaises
    \/ BatchNotAMapping
    \/ LoopEnds
    \/ WriteCsv
    \/ WriteCsvRaises

Spec == Init /\ [][Next]_vars

\* a turn of the for loop of line 81, or its end
LoopStep == BatchRaises \/ BatchNotAMapping \/ LoopEnds \/ BatchOk

\* the interpreter runs the single thread on: the loop is not left standing
FairSpec == Spec /\ WF_vars(LoopStep)

(***************************************************************************)
(* A stand-alone call of extract_country_from_seller.                      *)
(***************************************************************************)
MainIdle ==
    /\ pc = "off"
    /\ exitMsg = ""
    /\ keepaInstalled = TRUE
    /\ KEEPA_KEY = TRUE
    /\ fileExists = FALSE
    /\ fileLines = <<>>
    /\ seller_ids = <<>>
    /\ i = 0
    /\ rows = <<>>
    /\ calls = <<>>
    /\ outFile = NoFile
    /\ stdout = <<>>

ExtractInit ==
    /\ MainIdle
    /\ \E S \in KeySets : \E pick \in [S -> 1..SampleCount] :
          /\ \A k \in S : pick[k] <= Len(SamplesFor(k))
          /\ seller_obj = SampleRecord(pick)
    /\ country = None
    /\ epc = "ready"

ExtractCall ==
    /\ epc = "ready"
    /\ country' = extract_country_from_seller(seller_obj)
    /\ epc' = "returned"
    /\ UNCHANGED seller_obj
    /\ UNCHANGED mainVars

ExtractNext == ExtractCall

ExtractSpec == ExtractInit /\ [][ExtractNext]_vars

(***************************************************************************)
(* Claims about extract_country_from_seller, checked under ExtractSpec.    *)
(***************************************************************************)
\* a value that is a string with a character other than whitespace
NonBlankString(v) == v.t = "str" /\ \E n \in 1..Len(v.s) : v.s[n] \notin Whitespace

\* the characters of s from its first to its last non-whitespace character
Trimmed(s) ==
    LET inked == {n \in 1..Len(s) : s[n] \notin Whitespace}
    IN IF inked = {} THEN <<>>
       ELSE SubSeq(s, CHOOSE n \in inked : \A m \in inked : n <= m,
                      CHOOSE n \in inked : \A m \in inked : m <= n)

Step1Order == <<"establishedCountry", "countryCode", "country">>

Step2Order == <<"businessAddress", "registrationAddress", "address",
                "storefrontAddress", "sellerAddress">>

Step3Order == <<"country", "countryCode", "establishedCountry">>

\* the least element of a non-empty set of positions
Least(S) == CHOOSE n \in S : \A m \in S : n <= m

DirectDecides(k) == NonBlankString(seller_obj[k])

\* the positions of Step1Order whose field decides
DirectHits == {n \in 1..Len(Step1Order) : DirectDecides(Step1Order[n])}

SomeDirectDecides == DirectHits # {}

\* C5: step 1 returns the first of establishedCountry, countryCode, country that
\* holds a non-blank string, trimmed and upper-cased, whatever that string is and
\* whatever the address fields and "extra" hold; an absent, empty, blank or
\* non-string direct field is passed over.
C5_DirectFieldDecides ==
    (epc = "returned" /\ SomeDirectDecides) =>
        country = Some(Upper(Trimmed(seller_obj[Step1Order[Least(DirectHits)]].s)))

\* establishedCountry "Germany" decides against an address whose tail is "gb"
C5_Witness ==
    /\ epc = "returned"
    /\ seller_obj["establishedCountry"] = Str(<<"G","e","r","m","a","n","y">>)
    /\ seller_obj["address"] = Str(<<"x", ",", " ", "g", "b", " ">>)
    /\ country = Some(<<"G","E","R","M","A","N","Y">>)

\* what follows the last comma of s, all of s when it holds none
AfterLastComma(s) ==
    LET commas == {n \in 1..Len(s) : s[n] = ","}
    IN IF commas = {} THEN s
       ELSE SubSeq(s, (CHOOSE n \in commas : \A m \in commas : m <= n) + 1, Len(s))

\* the text of an address value on which the two-letter test is made: the last
\* list element, or the trailing comma segment of the trimmed string; trimmed
TwoLetterText(v) ==
    IF v.t = "list" THEN Trimmed(PyStrE(v.l[Len(v.l)]))
    ELSE Trimmed(AfterLastComma(Trimmed(v.s)))

\* the text on which the UK/GB pattern is searched: the trimmed last list element,
\* or the whole string
PatternText(v) == IF v.t = "list" THEN Trimmed(PyStrE(v.l[Len(v.l)])) ELSE v.s

\* what one address value determines, the two-letter test ahead of the pattern test
Determination(v) ==
    IF (v.t = "list" /\ v.l # <<>>) \/ NonBlankString(v)
    THEN LET two == TwoLetterText(v)
         IN IF Len(two) = 2 /\ two[1] \in Letters /\ two[2] \in Letters
            THEN Some(Upper(two))
            ELSE IF SearchUKGB(PatternText(v)) THEN Some(GB)
            ELSE None
    ELSE None

AddressDetermines(k) == Determination(seller_obj[k]).some

\* the positions of Step2Order whose field yields a determination
AddressHits == {n \in 1..Len(Step2Order) : AddressDetermines(Step2Order[n])}

SomeAddressDetermines == AddressHits # {}

\* C6: when no direct field decides, step 2 returns the determination of the first
\* of businessAddress, registrationAddress, address, storefrontAddress,
\* sellerAddress that yields one; a field yielding none does not stop the scan, and
\* within a field the two-letter test comes before the UK/GB pattern test.
C6_FirstAddressFieldWins ==
    (epc = "returned" /\ ~SomeDirectDecides /\ SomeAddressDetermines) =>
        country = Determination(seller_obj[Step2Order[Least(AddressHits)]])

\* businessAddress "Dubai, UKR" yields nothing; address ["London", "UK"] yields
\* "UK" by the two-letter test, not "GB" by the pattern
C6_Witness ==
    /\ epc = "returned"
    /\ seller_obj["businessAddress"] = Str(<<"D","u","b","a","i",","," ","U","K","R">>)
    /\ seller_obj["address"] = List(<<StrE(<<"L","o","n","d","o","n">>), StrE(UK)>>)
    /\ country = Some(UK)

ExtraDecides(k) ==
    /\ seller_obj["extra"].t = "dict"
    /\ seller_obj["extra"].d[k].t = "str"
    /\ \E n \in 1..Len(seller_obj["extra"].d[k].s) : seller_obj["extra"].d[k].s[n] \notin Whitespace

\* the positions of Step3Order whose key of "extra" holds a non-blank string
ExtraHits == {n \in 1..Len(Step3Order) : ExtraDecides(Step3Order[n])}

\* what steps 1 and 2 can return for the record
Step12Results ==
    { Some(Upper(Trimmed(seller_obj[k].s))) : k \in {f \in Range(Step1Order) : DirectDecides(f)} }
    \cup { Determination(seller_obj[k]) : k \in {f \in Range(Step2Order) : AddressDetermines(f)} }

\* C7: "extra" counts only when no direct and no address field determined the
\* country; then the result is the first non-blank string among extra.country,
\* extra.countryCode, extra.establishedCountry, trimmed and upper-cased, and
\* undetermined when "extra" is absent, no mapping, or holds no such string.
C7_ExtraIsLastResort ==
    epc = "returned" =>
        /\ (SomeDirectDecides \/ SomeAddressDetermines) => country \in Step12Results
        /\ (~SomeDirectDecides /\ ~SomeAddressDetermines) =>
            country = IF ExtraHits = {} THEN None
                      ELSE Some(Upper(Trimmed(seller_obj["extra"].d[Step3Order[Least(ExtraHits)]].s)))

\* extra holds country "fr" and establishedCountry "UK\n": country wins
C7_Witness ==
    /\ epc = "returned"
    /\ ~SomeDirectDecides
    /\ ~SomeAddressDetermines
    /\ seller_obj["extra"].t = "dict"
    /\ seller_obj["extra"].d["country"] = StrE(<<"f","r">>)
    /\ seller_obj["extra"].d["establishedCountry"] = StrE(<<"U","K","\n">>)
    /\ country = Some(<<"F","R">>)

(***************************************************************************)
(* Claims about main, checked under Spec.                                  *)
(***************************************************************************)
\* the rows the k-th call appended are rows[FirstRow(k)..LastRow(k)]
FirstRow(k) == calls[k].rowsBefore + 1

LastRow(k) == IF k < Len(calls) THEN calls[k + 1].rowsBefore ELSE Len(rows)

Failed(k) == calls[k].outcome # "ok"

\* the number of chunks of the loaded identifier sequence: ceil(n / BATCH)
ChunkCount == (Len(seller_ids) + BATCH - 1) \div BATCH

LoopOver == pc \in {"write", "done"} \/ (pc = "exit" /\ exitMsg = "open raised")

RECURSIVE RowsOfCalls(_)
RowsOfCalls(k) ==
    IF k = 0 THEN <<>>
    ELSE RowsOfCalls(k - 1)
         \o RowsOf(calls[k].batch, IF Failed(k) THEN EmptyData ELSE calls[k].data)

\* C1: a chunk whose lookup fails appends no row, the loop goes on to every later
\* chunk, and the rows collected are those of the other chunks, as if the failed
\* chunk had returned an empty mapping.
C1_FailedChunkIsSkipped ==
    /\ \A k \in 1..Len(calls) : Failed(k) => LastRow(k) = calls[k].rowsBefore
    /\ \A k \in 1..Len(calls) :
           (Failed(k) /\ k < ChunkCount) => (Len(calls) > k \/ (pc = "loop" /\ i = k * BATCH))
    /\ LoopOver => Len(calls) = ChunkCount
    /\ pc = "write" => rows = RowsOfCalls(Len(calls))

\* three chunks: rows from the first, the second fails, rows from the third
C1_Witness ==
    /\ pc = "done"
    /\ Len(calls) = 3
    /\ ~Failed(1) /\ LastRow(1) >= FirstRow(1)
    /\ calls[2].outcome = "raised"
    /\ ~Failed(3) /\ LastRow(3) >= FirstRow(3)
    /\ outFile.rows = rows

\* the identifiers of the k-th chunk whose record passes the filter: a dict whose
\* inferred country is "GB" or "UK"
PassingIds(k) ==
    { sid \in Range(calls[k].batch) :
        /\ DataGet(calls[k].data, sid).t = "dict"
        /\ extract_country_from_seller(DataGet(calls[k].data, sid).obj) \in {Some(GB), Some(UK)} }

\* C2: every row collected, and every row written, has establishedCountry "GB" or
\* "UK"; a record whose country is undetermined or anything else gives no row.
C2_OnlyGBorUK ==
    /\ {rows[n].establishedCountry : n \in 1..Len(rows)} \subseteq {<<"G", "B">>, <<"U", "K">>}
    /\ {outFile.rows[n].establishedCountry : n \in 1..Len(outFile.rows)}
           \subseteq {<<"G", "B">>, <<"U", "K">>}
    /\ \A k \in 1..Len(calls) :
           {rows[n].sellerId : n \in FirstRow(k)..LastRow(k)} \subseteq PassingIds(k)

\* a chunk holding a "GERMANY" record and a "GB" record gave rows, and the file is written
C2_Witness ==
    /\ pc = "done"
    /\ outFile.written
    /\ \E k \in 1..Len(calls) :
        /\ ~Failed(k)
        /\ extract_country_from_seller(calls[k].data[IdA].obj) = Some(<<"G","E","R","M","A","N","Y">>)
        /\ extract_country_from_seller(calls[k].data[IdB].obj) = Some(GB)
        /\ {IdA, IdB} \subseteq Range(calls[k].batch)
        /\ LastRow(k) >= FirstRow(k)

\* C3: the sellerId of every row is an identifier of the input sequence, namely one
\* of the chunk whose result was being read, whose record that result holds; keys
\* of the result that were not asked for give no row.
C3_NoFabricatedRows ==
    /\ {rows[n].sellerId : n \in 1..Len(rows)} \subseteq Range(seller_ids)
    /\ \A k \in 1..Len(calls) :
           /\ {rows[n].sellerId : n \in FirstRow(k)..LastRow(k)} \subseteq Range(calls[k].batch)
           /\ \A n \in FirstRow(k)..LastRow(k) :
                  /\ ~Failed(k)
                  /\ calls[k].data[rows[n].sellerId].t = "dict"
    /\ IdZ \notin Range(seller_ids)

\* a result held a GB record under a key that was not asked for, and rows were built
C3_Witness ==
    /\ pc = "done"
    /\ rows # <<>>
    /\ \E k \in 1..Len(calls) :
        /\ ~Failed(k)
        /\ calls[k].data[IdZ].t = "dict"
        /\ extract_country_from_seller(calls[k].data[IdZ].obj) = Some(GB)
        /\ LastRow(k) >= FirstRow(k)

\* the positions of the lines that hold a character other than whitespace
KeptLines == {n \in 1..Len(fileLines) : \E m \in 1..Len(fileLines[n]) : fileLines[n][m] \notin Whitespace}

\* the rank of kept line n among the kept lines
KeptRank(n) == Cardinality({m \in KeptLines : m <= n})

JustLoaded ==
    \/ pc = "init_api"
    \/ pc = "exit" /\ exitMsg \in {"seller_ids.txt has no seller IDs", "keepa.Keepa raised"}

\* C8: the loaded sequence is the non-blank lines of the file, each trimmed, in
\* file order, duplicates kept; with no such line, or no file, the run ends with
\* a fatal error before any lookup and before the output file is written.
C8_LoaderFiltersAndTrims ==
    /\ JustLoaded =>
        /\ Len(seller_ids) = Cardinality(KeptLines)
        /\ \A n \in KeptLines : seller_ids[KeptRank(n)] = Trimmed(fileLines[n])
    /\ (keepaInstalled /\ KEEPA_KEY /\ (~fileExists \/ KeptLines = {})) =>
        /\ pc \in {"import", "main", "exit"}
        /\ calls = <<>>
        /\ ~outFile.written
        /\ pc = "exit" =>
               exitMsg = (IF fileExists THEN "seller_ids.txt has no seller IDs"
                          ELSE "Missing seller_ids.txt")

\* a blank line, then the same padded identifier twice
C8_Witness ==
    /\ pc = "init_api"
    /\ fileLines = << <<" ", "\t", "\n">>, <<" ", "B", "2", " ", "\n">>, <<" ", "B", "2", " ", "\n">> >>
    /\ seller_ids = <<IdB, IdB>>

Min(a, b) == IF a < b THEN a ELSE b

RECURSIVE Chunks(_)
Chunks(k) == IF k = 0 THEN <<>> ELSE Chunks(k - 1) \o calls[k].batch

\* C9: the k-th lookup receives the identifiers at positions (k-1)*BATCH ..
\* min(k*BATCH, n)-1 (counted from 0); so there are ceil(n / BATCH) lookups when the
\* loop is over, each chunk is non-empty and of at most BATCH identifiers, the
\* chunks put end to end are the input sequence, and no chunk is looked up twice,
\* failed or not.
C9_ConsecutiveChunks ==
    /\ Len(calls) <= ChunkCount
    /\ \A k \in 1..Len(calls) :
        /\ calls[k].batch = SubSeq(seller_ids, (k - 1) * BATCH + 1, Min(k * BATCH, Len(seller_ids)))
        /\ Len(calls[k].batch) \in 1..BATCH
    /\ pc = "loop" => i = Len(calls) * BATCH
    /\ LoopOver =>
        /\ Len(calls) = ChunkCount
        /\ Chunks(Len(calls)) = seller_ids

\* 201 identifiers: chunks of 100, 100 and 1, the first lookup having failed
C9_Witness ==
    /\ pc = "done"
    /\ Len(seller_ids) = 2 * BATCH + 1
    /\ Len(calls) = 3
    /\ Failed(1)
    /\ Len(calls[3].batch) = 1

\* the sellerName of the record a row of the k-th chunk was built from
NameField(k, n) == calls[k].data[rows[n].sellerId].obj["sellerName"]

\* the claim as stated: the trimmed string, and "" for anything that is no string
C10_NonStringNameIsEmpty ==
    \A k \in 1..Len(calls) : \A n \in FirstRow(k)..LastRow(k) :
        rows[n].sellerName =
            IF NameField(k, n).t = "str" THEN Trimmed(NameField(k, n).s) ELSE <<>>

\* null, 0, an empty sequence, an empty mapping, an absent key
Falsy(v) ==
    \/ v.t \in {"absent", "none"}
    \/ v.t = "num" /\ v.s = <<"0">>
    \/ v.t = "list" /\ v.l = <<>>
    \/ v.t = "dict" /\ \A key \in InnerKeys : v.d[key].t = "absent"

\* C10 (amended): sellerName is the field trimmed when it is a string, "" when it
\* is absent, null, 0 or an empty sequence or mapping, and otherwise the text
\* str() gives for the value, trimmed: the digits of a non-zero number, the
\* bracketed listing of a non-empty sequence or mapping.
C10_SellerNameIsTrimmedText ==
    \A k \in 1..Len(calls) : \A n \in FirstRow(k)..LastRow(k) :
        LET v == NameField(k, n)
        IN /\ v.t = "str" => rows[n].sellerName = Trimmed(v.s)
           /\ Falsy(v) => rows[n].sellerName = <<>>
           /\ (v.t = "num" /\ ~Falsy(v)) => rows[n].sellerName = v.s
           /\ (v.t \in {"list", "dict"} /\ ~Falsy(v)) =>
                  /\ rows[n].sellerName = Trimmed(PyStr(v))
                  /\ rows[n].sellerName # <<>>

\* rows built from the name " Acme Ltd\n" and, in a later chunk, from the number 42
C10_Witness ==
    /\ pc = "done"
    /\ \E n \in 1..Len(rows) : rows[n].sellerName = <<"A","c","m","e"," ","L","t","d">>
    /\ \E k \in 1..Len(calls) :
        /\ LastRow(k) >= FirstRow(k)
        /\ NameField(k, FirstRow(k)) = Num(<<"4", "2">>)
        /\ rows[FirstRow(k)].sellerName = <<"4", "2">>

StartupMessages ==
    { "Run: pip install -r requirements.txt", "Set KEEPA_API_KEY in your .env file",
      "Missing seller_ids.txt", "seller_ids.txt has no seller IDs" }

====
